---- MODULE Spec2Model ----
(***************************************************************************)
(* Model of oxidator's src/utils.rs (typed identifiers Id<T>, their        *)
(* equality, hashing, cloning and Display/Debug rendering through the      *)
(* base-62 codec, rand_id_unsafe, pop_set) and of App::clear_from_play in  *)
(* src/client/misc.rs.                                                     *)
(*                                                                         *)
(* Representation.  A character is a one-character string (a token U+XXXX  *)
(* for one that cannot be written so) and a Rust string is a sequence of   *)
(* characters.  A u64 is a tuple of U64_BYTES bytes indexed by             *)
(* significance: v[1] is the least significant byte and                    *)
(* v[8] the most significant one (TLC's integers are 32 bits wide, so the  *)
(* 64-bit value is kept as its bytes and never as one number).  A byte     *)
(* array in memory is a tuple indexed by address, lowest address first.    *)
(***************************************************************************)
EXTENDS Integers, Sequences, FiniteSets, TLC

VARIABLES
    platform,               \* endianness of the build target: "le" or "be"
    ids, hmap, ret,         \* identifiers held by a caller, a HashMap keyed by them, last result
    fa, fb, outA, outB, dec,\* two identifiers, their rendered text, the decoded suffix
    nid, calls,             \* an identifier of some tag and the log of its fmt calls
    set, initial, popped, pstate,  \* pop_set: the HashSet, its first content, the values returned
    s, loopI, code,         \* rand_id_unsafe: the String, the loop counter, the result
    input, decoded,         \* base62::decode: its argument and its result
    players, my_player_id, kbots, selected, kinematic_projectiles, kbot_gpu, last

idVars   == <<ids, hmap, ret>>
fmtVars  == <<fa, fb, outA, outB, dec>>
nameVars == <<nid, calls>>
popVars  == <<set, initial, popped, pstate>>
randVars == <<s, loopI, code>>
decVars  == <<input, decoded>>
appVars  == <<players, my_player_id, kbots, selected, kinematic_projectiles, kbot_gpu, last>>
vars == <<platform, idVars, fmtVars, nameVars, popVars, randVars, decVars, appVars>>

Min(x, y) == IF x <= y THEN x ELSE y

(***************************************************************************)
(* Bounds of the model.                                                    *)
(***************************************************************************)
\* how many of SampleValues the identifier operations draw from
MaxVals == 3
\* how many of SampleBytes the formatted values are built from
ByteKinds == 3
\* how many fmt calls are logged
MaxCalls == 3
\* how many distinct elements a HashSet may start with
MaxElems == 4
\* how many buckets the modelled hash table has
NumBuckets == 2
\* how many entity identifiers the game state draws from
MaxEntities == 2

(***************************************************************************)
(* u64 values (utils.rs:40, IdValue = u64).                                *)
(***************************************************************************)
U64_BYTES == 8

Zero64 == [i \in 1..U64_BYTES |-> 0]

\* 0, 2^32, 1, 2^64-1, 2^56, 255, 2^32+1: values that differ in their high half only
SampleValues ==
    << Zero64,
       [i \in 1..U64_BYTES |-> IF i = 5 THEN 1 ELSE 0],
       [i \in 1..U64_BYTES |-> IF i = 1 THEN 1 ELSE 0],
       [i \in 1..U64_BYTES |-> 255],
       [i \in 1..U64_BYTES |-> IF i = 8 THEN 1 ELSE 0],
       [i \in 1..U64_BYTES |-> IF i = 1 THEN 255 ELSE 0],
       [i \in 1..U64_BYTES |-> IF i \in {1, 5} THEN 1 ELSE 0] >>

Values == {SampleValues[i] : i \in 1..Min(MaxVals, Len(SampleValues))}

SampleBytes == <<0, 255, 1, 61, 62, 128>>

ByteSample == {SampleBytes[i] : i \in 1..Min(ByteKinds, Len(SampleBytes))}

\* values made of a low run of one byte and a high run of another: 0, values with
\* leading zero bytes, values with trailing zero bytes, 2^64-1
FmtValues ==
    { [i \in 1..U64_BYTES |-> IF i <= k THEN x ELSE y] :
        k \in 0..U64_BYTES, x \in ByteSample, y \in ByteSample }

Platforms == {"le", "be"}

\* u64::swap_bytes
swap_bytes(v) == [i \in 1..U64_BYTES |-> v[U64_BYTES + 1 - i]]

\* std::mem::transmute::<u64, [u8; 8]> (utils.rs:65): the value's bytes as they lie
\* in memory, lowest address first
transmute(v, plat) ==
    IF plat = "le" THEN [i \in 1..U64_BYTES |-> v[i]]
    ELSE [i \in 1..U64_BYTES |-> v[U64_BYTES + 1 - i]]

\* u64::to_ne_bytes, which u64's Hash impl feeds to the hasher (utils.rs:98)
to_ne_bytes(v, plat) == transmute(v, plat)

\* the little-endian byte representation of a value: byte i-1 of the array is the
\* byte of significance i
le_bytes(v) == [i \in 1..U64_BYTES |-> v[i]]

(***************************************************************************)
(* Id<T> (utils.rs:42-55).  phantom is the tag T; it holds no data.        *)
(***************************************************************************)
\* Ksha is a struct whose name is the three characters U+0915 U+094D U+0937
Tags == {"KBot", "Player", "u32", "VecKBot", "VecU32", "Ksha"}

\* Id::new (utils.rs:49-54)
new(value, T) == [value |-> value, phantom |-> T]

\* Clone for Id<T> (utils.rs:80-84)
clone(self) == new(self.value, self.phantom)

eq_low32(self, other) ==
    \A i \in 1..4 : self.value[i] = other.value[i]

\* PartialEq for Id<T> (utils.rs:87-91)
eq(self, other) == self.value = other.value

(***************************************************************************)
(* Hashing (utils.rs:93-100).  A Hasher is modelled by the bytes written   *)
(* to it so far.                                                           *)
(***************************************************************************)
\* Hash for u64: Hasher::write_u64, i.e. write(&value.to_ne_bytes())
u64_hash(v, state, plat) == state \o to_ne_bytes(v, plat)

Id_hash_low32(self, state, plat) ==
    state \o SubSeq(to_ne_bytes(self.value, plat), 1, 4)

\* Hash for Id<T> (utils.rs:93-100): self.value.hash(state)
Id_hash(self, state, plat) == u64_hash(self.value, state, plat)

RECURSIVE SumBytes(_, _)
SumBytes(bytes, i) == IF i > Len(bytes) THEN 0 ELSE bytes[i] + SumBytes(bytes, i + 1)

\* Hasher::finish followed by the table's bucket selection: a lossy function of the
\* bytes written, so that different keys may share a bucket
finish(state) == SumBytes(state, 1) % NumBuckets

Buckets == 0..(NumBuckets - 1)

bucket_of(k, plat) == finish(Id_hash(k, <<>>, plat))

\* HashMap::get: probe the key's bucket, compare with ==
HashMap_get(m, k, plat) ==
    LET b == m[bucket_of(k, plat)]
        hits == {n \in 1..Len(b) : eq(b[n].key, k)}
    IN  IF hits = {} THEN [found |-> FALSE, val |-> 0]
        ELSE [found |-> TRUE, val |-> b[CHOOSE n \in hits : \A o \in hits : n <= o].val]

\* HashMap::insert: replace the value of an equal key, else add the entry
HashMap_insert(m, k, v, plat) ==
    LET h == bucket_of(k, plat)
        b == m[h]
        hits == {n \in 1..Len(b) : eq(b[n].key, k)}
    IN  IF hits = {} THEN [m EXCEPT ![h] = Append(b, [key |-> k, val |-> v])]
        ELSE [m EXCEPT ![h] = [n \in 1..Len(b) |->
                 IF n = (CHOOSE x \in hits : \A o \in hits : x <= o)
                 THEN [key |-> b[n].key, val |-> v] ELSE b[n]]]

MapEntries(m) == UNION {{m[h][n] : n \in 1..Len(m[h])} : h \in Buckets}

(***************************************************************************)
(* Callers of the identifier operations: three identifiers of one tag and  *)
(* a HashMap<Id<T>, _>.                                                    *)
(***************************************************************************)
Slots == 1..3

IdTags == {"KBot", "Player"}

NoRet == [op |-> "none", i |-> 0, j |-> 0, b |-> FALSE, feed |-> <<>>, val |-> 0]

IdleId   == ids = <<>> /\ hmap = <<>> /\ ret = NoRet
IdleFmt  == fa = 0 /\ fb = 0 /\ outA = <<>> /\ outB = <<>> /\ dec = 0
IdleName == nid = 0 /\ calls = <<>>
IdlePop  == set = {} /\ initial = {} /\ popped = <<>> /\ pstate = "idle"
IdleRand == s = <<>> /\ loopI = 0 /\ code = <<>>
IdleDec  == input = <<>> /\ decoded = 0
IdleApp  == /\ players = {} /\ my_player_id = {} /\ kbots = {} /\ selected = {}
            /\ kinematic_projectiles = {} /\ kbot_gpu = {} /\ last = [op |-> "idle", dropped |-> 0]

IdOthers == <<platform, fmtVars, nameVars, popVars, randVars, decVars, appVars>>

InitId ==
    /\ platform \in Platforms
    /\ \E T \in IdTags : ids = [i \in Slots |-> new(Zero64, T)]
    /\ hmap = [h \in Buckets |-> <<>>]
    /\ ret = NoRet
    /\ IdleFmt /\ IdleName /\ IdlePop /\ IdleRand /\ IdleDec /\ IdleApp

\* let x = Id::new(v)
IdNew(j, v) ==
    /\ ids' = [ids EXCEPT ![j] = new(v, ids[j].phantom)]
    /\ ret' = [NoRet EXCEPT !.op = "new"]
    /\ UNCHANGED <<hmap, IdOthers>>

\* let x = y.clone()
IdClone(i, j) ==
    /\ ids' = [ids EXCEPT ![j] = clone(ids[i])]
    /\ ret' = [NoRet EXCEPT !.op = "clone"]
    /\ UNCHANGED <<hmap, IdOthers>>

\* x == y
IdEq(i, j) ==
    /\ ret' = [NoRet EXCEPT !.op = "eq", !.i = i, !.j = j, !.b = eq(ids[i], ids[j])]
    /\ UNCHANGED <<ids, hmap, IdOthers>>

\* x.hash(&mut hasher) on a fresh hasher
IdHash(i) ==
    /\ ret' = [NoRet EXCEPT !.op = "hash", !.i = i, !.feed = Id_hash(ids[i], <<>>, platform)]
    /\ UNCHANGED <<ids, hmap, IdOthers>>

\* map.insert(x, 1)
MapInsert(i) ==
    /\ hmap' = HashMap_insert(hmap, ids[i], 1, platform)
    /\ ret' = [NoRet EXCEPT !.op = "insert"]
    /\ UNCHANGED <<ids, IdOthers>>

\* map.get(&x)
MapGet(i) ==
    /\ LET r == HashMap_get(hmap, ids[i], platform)
       IN  ret' = [NoRet EXCEPT !.op = "get", !.i = i, !.b = r.found, !.val = r.val]
    /\ UNCHANGED <<ids, hmap, IdOthers>>

NextId ==
    \/ \E j \in Slots, v \in Values : IdNew(j, v)
    \/ \E i \in Slots, j \in Slots : IdClone(i, j)
    \/ \E i \in Slots, j \in Slots : IdEq(i, j)
    \/ \E i \in Slots : IdHash(i)
    \/ \E i \in Slots : MapInsert(i)
    \/ \E i \in Slots : MapGet(i)

SpecId == InitId /\ [][NextId]_vars

(***************************************************************************)
(* Claims about equality and hashing.                                      *)
(***************************************************************************)
BytesEqual(v, w) == \A k \in 1..U64_BYTES : v[k] = w[k]

\* C1: a == b holds exactly when the two 64-bit values are equal, whatever the tag,
\* and == is reflexive, symmetric and transitive.
ThmC1_EqIffValueEqual ==
    /\ ret.op = "eq" => (ret.b <=> BytesEqual(ids[ret.i].value, ids[ret.j].value))
    /\ \A i \in Slots, j \in Slots, T \in IdTags :
          eq(new(ids[i].value, T), new(ids[j].value, T)) <=> eq(ids[i], ids[j])
    /\ \A i \in Slots : eq(ids[i], ids[i])
    /\ \A i \in Slots, j \in Slots : eq(ids[i], ids[j]) => eq(ids[j], ids[i])
    /\ \A i \in Slots, j \in Slots, k \in Slots :
          eq(ids[i], ids[j]) /\ eq(ids[j], ids[k]) => eq(ids[i], ids[k])

\* two identifiers that differ in the high half of the value only were compared and
\* found different, while a third one equals the first
WitC1_ComparedHighHalf ==
    /\ ret.op = "eq" /\ ~ret.b /\ ret.i # ret.j
    /\ ids[ret.i].value = SampleValues[1]
    /\ ids[ret.j].value = SampleValues[2]
    /\ \E k \in Slots : k # ret.i /\ eq(ids[k], ids[ret.i])

\* C2: hashing an identifier writes to the hasher what hashing its bare value writes,
\* equal identifiers hash alike, and a key of a hash map is found again by any
\* identifier made with new() or clone() from the same value.
ThmC2_HashIsValueHash ==
    /\ ret.op = "hash" => ret.feed = u64_hash(ids[ret.i].value, <<>>, platform)
    /\ \A i \in Slots, j \in Slots :
          eq(ids[i], ids[j]) =>
             /\ Id_hash(ids[i], <<>>, platform) = Id_hash(ids[j], <<>>, platform)
             /\ finish(Id_hash(ids[i], <<>>, platform)) = finish(Id_hash(ids[j], <<>>, platform))
    /\ \A e \in MapEntries(hmap) :
          /\ HashMap_get(hmap, clone(e.key), platform) = [found |-> TRUE, val |-> e.val]
          /\ HashMap_get(hmap, new(e.key.value, e.key.phantom), platform).found
          /\ \A i \in Slots : ids[i].value = e.key.value =>
                HashMap_get(hmap, ids[i], platform).found
    /\ ret.op = "get" =>
          (ret.b <=> \E e \in MapEntries(hmap) : e.key.value = ids[ret.i].value)

\* a lookup found its key in a bucket that holds two keys, and a hash was taken
WitC2_FoundInSharedBucket ==
    /\ ret.op = "get" /\ ret.b
    /\ ids[ret.i].value # Zero64
    /\ Len(hmap[bucket_of(ids[ret.i], platform)]) >= 2

(***************************************************************************)
(* The base-62 codec, base_62::base62 (utils.rs:1).  Its code is not part  *)
(* of the sources; it is modelled from the specification, section 4.2: the *)
(* bytes are read as one big-endian numeral and written in radix 62 with   *)
(* the digits 0-9, A-Z, a-z.  A marker byte 1 is put in front of the bytes *)
(* so that leading zero bytes survive the round trip and every byte        *)
(* sequence of the fixed width has an encoding.  Decoding fails for a      *)
(* character outside the alphabet and for a numeral that is not a marker   *)
(* followed by exactly U64_BYTES bytes.                                    *)
(* A big number is a sequence of bytes, most significant first, without    *)
(* leading zero bytes (zero is the empty sequence).                        *)
(***************************************************************************)
ALPHABET ==
    << "0", "1", "2", "3", "4", "5", "6", "7", "8", "9",
       "A", "B", "C", "D", "E", "F", "G", "H", "I", "J", "K", "L", "M",
       "N", "O", "P", "Q", "R", "S", "T", "U", "V", "W", "X", "Y", "Z",
       "a", "b", "c", "d", "e", "f", "g", "h", "i", "j", "k", "l", "m",
       "n", "o", "p", "q", "r", "s", "t", "u", "v", "w", "x", "y", "z" >>

BASE == Len(ALPHABET)

AlphabetSet == {ALPHABET[i] : i \in 1..BASE}

DigitOf(c) == (CHOOSE i \in 1..BASE : ALPHABET[i] = c) - 1

RECURSIVE StripZeros(_)
StripZeros(big) ==
    IF big = <<>> THEN <<>>
    ELSE IF big[1] = 0 THEN StripZeros(Tail(big)) ELSE big

\* big divided by BASE: [q |-> quotient, r |-> remainder], by long division
RECURSIVE DivRem(_, _, _, _)
DivRem(big, i, rem, acc) ==
    IF i > Len(big) THEN [q |-> StripZeros(acc), r |-> rem]
    ELSE LET cur == rem * 256 + big[i]
         IN  DivRem(big, i + 1, cur % BASE, Append(acc, cur \div BASE))

\* big * BASE + d
RECURSIVE MulAdd(_, _, _, _)
MulAdd(big, i, carry, acc) ==
    IF i = 0 THEN StripZeros(<<carry>> \o acc)
    ELSE LET cur == big[i] * BASE + carry
         IN  MulAdd(big, i - 1, cur \div 256, <<cur % 256>> \o acc)

RECURSIVE EncodeDigits(_, _)
EncodeDigits(big, acc) ==
    IF big = <<>> THEN acc
    ELSE LET d == DivRem(big, 1, 0, <<>>)
         IN  EncodeDigits(d.q, <<ALPHABET[d.r + 1]>> \o acc)

\* base62::encode(&bytes)
encode(bytes) ==
    IF Len(bytes) = 0 THEN <<>> ELSE EncodeDigits(<<1>> \o bytes, <<>>)

RECURSIVE DecodeDigits(_, _, _)
DecodeDigits(str, i, big) ==
    IF i > Len(str) THEN big
    ELSE DecodeDigits(str, i + 1, MulAdd(big, Len(big), DigitOf(str[i]), <<>>))

InvalidEncoding == [kind |-> "InvalidEncoding", bytes |-> <<>>]

Ok(bytes) == [kind |-> "Ok", bytes |-> bytes]

decode_any_width(str) ==
    IF \E i \in 1..Len(str) : str[i] \notin AlphabetSet THEN InvalidEncoding
    ELSE LET big == DecodeDigits(str, 1, <<>>)
         IN  IF big = <<>> THEN InvalidEncoding ELSE Ok(Tail(big))

\* base62::decode(str)
decode(str) ==
    IF \E i \in 1..Len(str) : str[i] \notin AlphabetSet THEN InvalidEncoding
    ELSE LET big == DecodeDigits(str, 1, <<>>)
         IN  IF Len(big) = U64_BYTES + 1 /\ big[1] = 1 THEN Ok(Tail(big))
             ELSE InvalidEncoding

(***************************************************************************)
(* Display and Debug for Id<T> (utils.rs:57-78).                           *)
(***************************************************************************)
\* T::type_name() of the typename crate: the type's path, generic arguments included
type_name(T) ==
    CASE T = "KBot" ->
           << "o", "x", "i", "d", "a", "t", "o", "r", ":", ":", "m", "o", "b", "i", "l", "e",
              ":", ":", "K", "B", "o", "t" >>
      [] T = "Player" ->
           << "o", "x", "i", "d", "a", "t", "o", "r", ":", ":", "P", "l", "a", "y", "e", "r" >>
      [] T = "u32" -> << "u", "3", "2" >>
      [] T = "VecKBot" ->
           << "s", "t", "d", ":", ":", "v", "e", "c", ":", ":", "V", "e", "c", "<",
              "o", "x", "i", "d", "a", "t", "o", "r", ":", ":", "m", "o", "b", "i", "l", "e",
              ":", ":", "K", "B", "o", "t", ">" >>
      [] T = "VecU32" ->
           << "s", "t", "d", ":", ":", "v", "e", "c", ":", ":", "V", "e", "c", "<",
              "u", "3", "2", ">" >>
      [] T = "Ksha" ->
           << "o", "x", "i", "d", "a", "t", "o", "r", ":", ":", "U+0915", "U+094D", "U+0937" >>

(***************************************************************************)
(* Characters and their code points.  A printable ASCII character, TAB,   *)
(* LF and CR are the one-character strings; any other character is the    *)
(* token "U+XXXX" of OtherChars, which gives its code point and what the   *)
(* Unicode tables of core say about it.                                    *)
(***************************************************************************)
\* U+0020 .. U+007E in order (the grave accent is written as the token U+0060)
AsciiPrintable ==
    <<
       " ", "!", "\"", "#", "$", "%", "&", "'", "(", ")", "*", "+", ",", "-", ".", "/",
       "0", "1", "2", "3", "4", "5", "6", "7", "8", "9", ":", ";", "<", "=", ">", "?",
       "@", "A", "B", "C", "D", "E", "F", "G", "H", "I", "J", "K", "L", "M", "N", "O",
       "P", "Q", "R", "S", "T", "U", "V", "W", "X", "Y", "Z", "[", "\\", "]", "^", "_",
       "U+0060", "a", "b", "c", "d", "e", "f", "g", "h", "i", "j", "k", "l", "m", "n", "o",
       "p", "q", "r", "s", "t", "u", "v", "w", "x", "y", "z", "{", "|", "}", "~" >>

OtherChars ==
    { [c |-> "U+0000", cp |-> 0,    grapheme_extend |-> FALSE, printable |-> FALSE],
      [c |-> "U+007F", cp |-> 127,  grapheme_extend |-> FALSE, printable |-> FALSE],
      [c |-> "U+00E9", cp |-> 233,  grapheme_extend |-> FALSE, printable |-> TRUE],
      [c |-> "U+0301", cp |-> 769,  grapheme_extend |-> TRUE,  printable |-> TRUE],
      [c |-> "U+0915", cp |-> 2325, grapheme_extend |-> FALSE, printable |-> TRUE],
      [c |-> "U+0937", cp |-> 2359, grapheme_extend |-> FALSE, printable |-> TRUE],
      [c |-> "U+094D", cp |-> 2381, grapheme_extend |-> TRUE,  printable |-> TRUE] }

IsOther(c) == \E o \in OtherChars : o.c = c

Other(c) == CHOOSE o \in OtherChars : o.c = c

\* the character as u32
CodePoint(c) ==
    CASE c = "\t" -> 9
      [] c = "\n" -> 10
      [] c = "\r" -> 13
      [] IsOther(c) -> Other(c).cp
      [] OTHER -> 31 + (CHOOSE i \in 1..Len(AsciiPrintable) : AsciiPrintable[i] = c)

\* core::unicode::Grapheme_Extend
is_grapheme_extended(c) == IsOther(c) /\ Other(c).grapheme_extend

\* core::unicode::printable::is_printable: no control character is printable
is_printable(c) ==
    IF IsOther(c) THEN Other(c).printable
    ELSE CodePoint(c) >= 32 /\ CodePoint(c) < 127

HexDigit == <<"0", "1", "2", "3", "4", "5", "6", "7", "8", "9", "a", "b", "c", "d", "e", "f">>

RECURSIVE LowerHex(_)
LowerHex(n) ==
    IF n < 16 THEN <<HexDigit[n + 1]>>
    ELSE LowerHex(n \div 16) \o <<HexDigit[(n % 16) + 1]>>

\* char::escape_unicode: \u{NNNN}, lower-case hexadecimal without leading zeros
escape_unicode(c) == <<"\\", "u", "{">> \o LowerHex(CodePoint(c)) \o <<"}">>

\* char::escape_debug_ext as <str as Debug>::fmt calls it (utils.rs:67): the single
\* quote is not escaped, Grapheme_Extend characters are
escape_debug_char(c) ==
    CASE c = "U+0000" -> <<"\\", "0">>
      [] c = "\t" -> <<"\\", "t">>
      [] c = "\r" -> <<"\\", "r">>
      [] c = "\n" -> <<"\\", "n">>
      [] c = "\\" -> <<"\\", "\\">>
      [] c = "\"" -> <<"\\", "\"">>
      [] OTHER -> IF is_grapheme_extended(c) THEN escape_unicode(c)
                  ELSE IF is_printable(c) THEN <<c>>
                  ELSE escape_unicode(c)

RECURSIVE escape_debug(_, _)
escape_debug(str, i) ==
    IF i > Len(str) THEN <<>>
    ELSE escape_debug_char(str[i]) \o escape_debug(str, i + 1)

\* format!("{:?}", name) of a String (utils.rs:67): the text between double quotes
str_debug(str) == <<"\"">> \o escape_debug(str, 1) \o <<"\"">>

\* name.split("::").last().unwrap() (utils.rs:69): the matches of "::" are found
\* from the left and do not overlap; the result is what follows the last one
RECURSIVE split_last(_, _, _)
split_last(str, i, start) ==
    IF i + 1 > Len(str) THEN SubSeq(str, start, Len(str))
    ELSE IF str[i] = ":" /\ str[i + 1] = ":" THEN split_last(str, i + 2, i + 2)
    ELSE split_last(str, i + 1, start)

\* utils.rs:67-70
simple_name(T) ==
    LET name == str_debug(type_name(T))
        simple == split_last(name, 1, 1)
    IN  SubSeq(simple, 1, Len(simple) - 1)

to_le_forgotten(v, plat) == v

\* u64::to_le (utils.rs:65): the identity on a little-endian target, a byte swap on
\* a big-endian one
to_le(v, plat) == IF plat = "le" THEN v ELSE swap_bytes(v)

\* Debug for Id<T> (utils.rs:63-78)
Debug_fmt(self, plat) ==
    LET x == transmute(to_le(self.value, plat), plat)
    IN  simple_name(self.phantom) \o <<"#">> \o encode(x)

Display_fmt_value_only(self, plat) ==
    encode(transmute(to_le(self.value, plat), plat))

\* Display for Id<T> (utils.rs:57-61): write!(f, "{:?}", self)
Display_fmt(self, plat) == Debug_fmt(self, plat)

FirstHash(text) ==
    IF \E i \in 1..Len(text) : text[i] = "#"
    THEN CHOOSE i \in 1..Len(text) : text[i] = "#" /\ \A j \in 1..(i - 1) : text[j] # "#"
    ELSE Len(text) + 1

\* the parts of a rendered identifier before and after the first '#'
Prefix(text) == SubSeq(text, 1, FirstHash(text) - 1)
Suffix(text) == SubSeq(text, FirstHash(text) + 1, Len(text))

(***************************************************************************)
(* Rendering two identifiers of one tag and decoding the rendered suffix.  *)
(***************************************************************************)
NoDec == [kind |-> "none", bytes |-> <<>>]

FmtOthers == <<platform, idVars, nameVars, popVars, randVars, decVars, appVars>>

InitFmt ==
    /\ platform \in Platforms
    /\ \E v \in FmtValues, w \in FmtValues : fa = new(v, "KBot") /\ fb = new(w, "KBot")
    /\ outA = <<>> /\ outB = <<>> /\ dec = NoDec
    /\ IdleId /\ IdleName /\ IdlePop /\ IdleRand /\ IdleDec /\ IdleApp

\* format!("{}", a)
DisplayA ==
    /\ outA = <<>>
    /\ outA' = Display_fmt(fa, platform)
    /\ UNCHANGED <<fa, fb, outB, dec, FmtOthers>>

\* format!("{}", b)
DisplayB ==
    /\ outB = <<>>
    /\ outB' = Display_fmt(fb, platform)
    /\ UNCHANGED <<fa, fb, outA, dec, FmtOthers>>

\* base62::decode of what follows '#' in the text of a
DecodeA ==
    /\ outA # <<>> /\ dec = NoDec
    /\ dec' = decode(Suffix(outA))
    /\ UNCHANGED <<fa, fb, outA, outB, FmtOthers>>

NextFmt == DisplayA \/ DisplayB \/ DecodeA

SpecFmt == InitFmt /\ [][NextFmt]_vars

\* C3: the text after '#' is the base-62 encoding of the value's 8 little-endian
\* bytes, decoding it gives those 8 bytes back, and identifiers of one tag with
\* different values render differently.
ThmC3_SuffixRoundTrips ==
    /\ outA # <<>> => Suffix(outA) = encode(le_bytes(fa.value))
    /\ outB # <<>> => Suffix(outB) = encode(le_bytes(fb.value))
    /\ dec # NoDec => dec = Ok(le_bytes(fa.value))
    /\ (outA # <<>> /\ outB # <<>> /\ fa.value # fb.value) => outA # outB

\* the value 255 * 2^56, whose low seven bytes are zero, was rendered on a
\* big-endian target and decoded back; another value was rendered too
WitC3_TrailingZerosDecoded ==
    /\ platform = "be"
    /\ fa.value = [i \in 1..U64_BYTES |-> IF i <= 7 THEN 0 ELSE 255]
    /\ dec.kind = "Ok" /\ dec.bytes = <<0, 0, 0, 0, 0, 0, 0, 255>>
    /\ outB # <<>> /\ fb.value = Zero64 /\ outA # outB

(***************************************************************************)
(* Repeated Display and Debug calls on two identifiers of one tag, for     *)
(* every tag of Tags.                                                      *)
(***************************************************************************)
NameOthers == <<platform, idVars, fmtVars, popVars, randVars, decVars, appVars>>

InitName ==
    /\ platform \in Platforms
    /\ \E T \in Tags, v \in Values, w \in Values : nid = <<new(v, T), new(w, T)>>
    /\ calls = <<>>
    /\ IdleId /\ IdleFmt /\ IdlePop /\ IdleRand /\ IdleDec /\ IdleApp

\* format!("{}", x): fmt takes &self, the identifier is not written
DisplayCall(who) ==
    /\ Len(calls) < MaxCalls
    /\ calls' = Append(calls, [who |-> who, kind |-> "display", value |-> nid[who].value,
                               text |-> Display_fmt(nid[who], platform)])
    /\ UNCHANGED <<nid, NameOthers>>

\* format!("{:?}", x)
DebugCall(who) ==
    /\ Len(calls) < MaxCalls
    /\ calls' = Append(calls, [who |-> who, kind |-> "debug", value |-> nid[who].value,
                               text |-> Debug_fmt(nid[who], platform)])
    /\ UNCHANGED <<nid, NameOthers>>

NextName ==
    \/ \E who \in 1..2 : DisplayCall(who)
    \/ \E who \in 1..2 : DebugCall(who)

SpecName == InitName /\ [][NextName]_vars

IsSeparator(c) == c \in {"<", ">", ",", " "}

\* a type name with the namespace qualification of every path in it removed:
\* each run "a::b::Name" becomes "Name", inside generic arguments too
RECURSIVE Unqualified(_, _, _, _)
Unqualified(name, i, out, cur) ==
    IF i > Len(name) THEN out \o cur
    ELSE IF i < Len(name) /\ name[i] = ":" /\ name[i + 1] = ":"
         THEN Unqualified(name, i + 2, out, <<>>)
    ELSE IF IsSeparator(name[i])
         THEN Unqualified(name, i + 1, out \o cur \o <<name[i]>>, <<>>)
    ELSE Unqualified(name, i + 1, out, Append(cur, name[i]))

\* C8: the text before '#' is the tag's simple type name, with the namespace
\* qualification stripped and nothing else added or removed, also for names
\* without "::" and for generic names whose parameters contain "::".
CexC8_PrefixIsSimpleTypeName ==
    \A n \in 1..Len(calls) :
        Prefix(calls[n].text) = Unqualified(type_name(nid[calls[n].who].phantom), 1, <<>>, <<>>)

\* C9: every Display and Debug call on identifiers of equal value and tag gives the
\* same text, and the identifier still has the value it was formatted with.
ThmC9_FormattingIsPure ==
    /\ \A m \in 1..Len(calls), n \in 1..Len(calls) :
          nid[calls[m].who].value = nid[calls[n].who].value => calls[m].text = calls[n].text
    /\ \A n \in 1..Len(calls) : nid[calls[n].who].value = calls[n].value

\* one identifier was rendered by Display and by Debug, and an equal one was
\* rendered as well
WitC9_DisplayDebugAndEqualId ==
    /\ nid[1].value = nid[2].value /\ nid[1].value # Zero64
    /\ \E m \in 1..Len(calls), n \in 1..Len(calls), k \in 1..Len(calls) :
          /\ calls[m].who = 1 /\ calls[m].kind = "display"
          /\ calls[n].who = 1 /\ calls[n].kind = "debug"
          /\ calls[k].who = 2

(***************************************************************************)
(* pop_set (utils.rs:121-124).  An Option is the set of its values: {} is  *)
(* None and {x} is Some(x).                                                *)
(***************************************************************************)
Elems == 1..MaxElems

\* set.iter().next().cloned() (utils.rs:122): the first element in the table's
\* iteration order, which may be any element; None for an empty set
iter_next(hs) == IF hs = {} THEN {{}} ELSE {{e} : e \in hs}

HashSet_get(hs, elt) ==
    [set |-> hs, ret |-> IF elt \in hs THEN {elt} ELSE {}]

\* HashSet::take (utils.rs:123): removes and returns the element equal to elt
HashSet_take(hs, elt) ==
    [set |-> hs \ {elt}, ret |-> IF elt \in hs THEN {elt} ELSE {}]

\* pop_set (utils.rs:121-124): the outcomes the call can have.  unwrap() of None
\* panics; the set is then as it was.
pop_set(hs) ==
    { IF first = {} THEN [panic |-> TRUE, set |-> hs, ret |-> {}]
      ELSE LET elt == CHOOSE e \in first : TRUE
               taken == HashSet_take(hs, elt)
           IN  IF taken.ret = {} THEN [panic |-> TRUE, set |-> taken.set, ret |-> {}]
               ELSE [panic |-> FALSE, set |-> taken.set, ret |-> taken.ret]
      : first \in iter_next(hs) }

PopOthers == <<platform, idVars, fmtVars, nameVars, randVars, decVars, appVars>>

InitPop ==
    /\ set \in SUBSET Elems
    /\ initial = set
    /\ popped = <<>>
    /\ pstate = "ready"
    /\ platform = "le"
    /\ IdleId /\ IdleFmt /\ IdleName /\ IdleRand /\ IdleDec /\ IdleApp

\* let x = pop_set(&mut set); a panic ends the program
PopSet ==
    /\ pstate # "panicked"
    /\ \E o \in pop_set(set) :
          /\ set' = o.set
          /\ popped' = IF o.panic THEN popped ELSE Append(popped, CHOOSE e \in o.ret : TRUE)
          /\ pstate' = IF o.panic THEN "panicked" ELSE "returned"
    /\ UNCHANGED <<initial, PopOthers>>

NextPop == PopSet

SpecPop == InitPop /\ [][NextPop]_vars

Range(seq) == {seq[i] : i \in 1..Len(seq)}

\* C4: every pop of a non-empty set returns a member and removes exactly it, so
\* the values returned so far are pairwise different members of the first content,
\* the set is the first content without them, and after as many pops as there were
\* elements the set is empty.
ThmC4_PopRemovesWhatItReturns ==
    /\ Range(popped) \subseteq initial
    /\ \A m \in 1..Len(popped), n \in 1..Len(popped) : popped[m] = popped[n] => m = n
    /\ set = initial \ Range(popped)
    /\ Cardinality(set) = Cardinality(initial) - Len(popped)
    /\ Len(popped) = Cardinality(initial) => set = {}
    /\ (pstate = "returned" /\ Cardinality(initial) = 1) => (popped = <<CHOOSE e \in initial : TRUE>> /\ set = {})

\* a set of three elements was emptied by three pops
WitC4_ThreePopsEmptied ==
    /\ Cardinality(initial) = 3 /\ Len(popped) = 3 /\ set = {} /\ pstate = "returned"

\* C5: pop_set on an empty set gives the caller an EmptyCollection error value and
\* does not abort; the set stays empty.
CexC5_EmptyPopIsAnErrorValue == pstate # "panicked"

(***************************************************************************)
(* rand_id_unsafe (utils.rs:112-119).                                      *)
(***************************************************************************)
\* ID_CHARS (utils.rs:28-33)
ID_CHARS ==
    << "A", "Z", "E", "R", "T", "Y", "U", "I", "O", "P", "Q", "S", "D", "F", "G", "H",
       "J", "K", "L", "M", "W", "X", "C", "V", "B", "N",
       "a", "z", "e", "r", "t", "y", "u", "i", "o", "p", "q", "s", "d", "f", "g", "h",
       "j", "k", "l", "m", "w", "x", "c", "v", "b", "n",
       "0", "1", "2", "3", "4", "5", "6", "7", "8", "9" >>

\* ID_SIZE (utils.rs:34)
ID_SIZE == 5

\* the indices SliceRandom::choose may draw (utils.rs:116): every index of the
\* slice, at every call, whatever was drawn before
RngIndices == 0..(Len(ID_CHARS) - 1)

\* ID_CHARS.choose(&mut rng).unwrap() (utils.rs:116) for the index the source gave
choose(idx) == ID_CHARS[idx + 1]

RandOthers == <<platform, idVars, fmtVars, nameVars, popVars, decVars, appVars>>

InitRand ==
    /\ s = <<>> /\ loopI = 0 /\ code = <<>>
    /\ platform = "le"
    /\ IdleId /\ IdleFmt /\ IdleName /\ IdlePop /\ IdleDec /\ IdleApp

\* for _ in 0..ID_SIZE (utils.rs:115): whether the loop runs for counter i
in_range(i) == i < ID_SIZE

\* one turn of the loop (utils.rs:115-117)
RandPush ==
    /\ in_range(loopI)
    /\ \E idx \in RngIndices : s' = Append(s, choose(idx))
    /\ loopI' = loopI + 1
    /\ UNCHANGED <<code, RandOthers>>

\* the loop is over: s is returned (utils.rs:118)
RandReturn ==
    /\ ~in_range(loopI) /\ code = <<>>
    /\ code' = s
    /\ UNCHANGED <<s, loopI, RandOthers>>

NextRand == RandPush \/ RandReturn

\* every behaviour of rand_id_unsafe: 62^5 results
SpecRand == InitRand /\ [][NextRand]_vars

IdCharSet == {ID_CHARS[i] : i \in 1..Len(ID_CHARS)}

UpperCase == {"A", "B", "C", "D", "E", "F", "G", "H", "I", "J", "K", "L", "M",
              "N", "O", "P", "Q", "R", "S", "T", "U", "V", "W", "X", "Y", "Z"}
LowerCase == {"a", "b", "c", "d", "e", "f", "g", "h", "i", "j", "k", "l", "m",
              "n", "o", "p", "q", "r", "s", "t", "u", "v", "w", "x", "y", "z"}
Digits == {"0", "1", "2", "3", "4", "5", "6", "7", "8", "9"}

\* C6: rand_id_unsafe returns exactly 5 characters, each of ID_CHARS, whatever the
\* random source gives; ID_CHARS holds 62 different symbols: the 26 upper-case
\* letters, the 26 lower-case letters and the 10 digits; while the loop runs, every
\* symbol of ID_CHARS can be the next one pushed, whatever was pushed before, so
\* that every string of 5 symbols is a possible result, repeated symbols included.
\* SpecRand has 62^5 results, more states than TLC can enumerate: the formula has
\* been checked on a part of them only.
ThmC6_FiveCharsOfTheAlphabet ==
    /\ code # <<>> => (Len(code) = 5 /\ \A i \in 1..Len(code) : code[i] \in IdCharSet)
    /\ Len(s) = loopI /\ \A i \in 1..Len(s) : s[i] \in IdCharSet
    /\ Len(ID_CHARS) = 62 /\ Cardinality(IdCharSet) = 62
    /\ IdCharSet = UpperCase \cup LowerCase \cup Digits
    /\ Cardinality(UpperCase) = 26 /\ Cardinality(LowerCase) = 26 /\ Cardinality(Digits) = 10
    /\ in_range(loopI) => \A c \in IdCharSet : ENABLED (RandPush /\ s' = Append(s, c))
    /\ (~in_range(loopI) /\ code = <<>>) => ENABLED (RandReturn /\ code' = s)

(***************************************************************************)
(* base62::decode on strings a caller may hand it: encodings of values,    *)
(* encodings with one character replaced by one outside the alphabet,      *)
(* encodings with a digit added at an end, and a few short strings.        *)
(***************************************************************************)
BadChars == {"@", "#"}

ReplaceAt(str, pos, c) == [i \in 1..Len(str) |-> IF i = pos THEN c ELSE str[i]]

DecodeInputs ==
    LET good == {encode(le_bytes(v)) : v \in FmtValues}
    IN  good
        \cup {ReplaceAt(e, pos, c) : e \in good, pos \in {1, 6, 11}, c \in BadChars}
        \cup {Append(e, d) : e \in good, d \in {"0", "z"}}
        \cup {<<d>> \o e : e \in good, d \in {"1", "z"}}
        \cup {<<"@", "@", "@", "@", "@">>, <<>>, <<"0">>, <<"z", "z", "z", "z", "z">>,
              [i \in 1..11 |-> "z"]}

DecOthers == <<platform, idVars, fmtVars, nameVars, popVars, randVars, appVars>>

InitDecode ==
    /\ input \in DecodeInputs
    /\ decoded = NoDec
    /\ platform = "le"
    /\ IdleId /\ IdleFmt /\ IdleName /\ IdlePop /\ IdleRand /\ IdleApp

\* base62::decode(&input)
Decode ==
    /\ decoded = NoDec
    /\ decoded' = decode(input)
    /\ UNCHANGED <<input, DecOthers>>

NextDecode == Decode

SpecDecode == InitDecode /\ [][NextDecode]_vars

HasBadChar(str) == \E i \in 1..Len(str) : str[i] \notin AlphabetSet

\* the numeral str, read in radix 62, is 2^65 or more: what follows the marker
\* does not fit the 8 bytes
ExceedsWidth(str) ==
    LET big == DecodeDigits(str, 1, <<>>)
    IN  Len(big) > U64_BYTES + 1 \/ (Len(big) = U64_BYTES + 1 /\ big[1] > 1)

\* C7: decoding a string with a character outside the 62-symbol alphabet, or one
\* whose value exceeds the 8-byte width, fails with InvalidEncoding and yields no
\* bytes.
ThmC7_DecodeRejects ==
    decoded # NoDec =>
        /\ HasBadChar(input) => decoded = InvalidEncoding
        /\ (~HasBadChar(input) /\ ExceedsWidth(input)) => decoded = InvalidEncoding
        /\ decoded.kind = "InvalidEncoding" => decoded.bytes = <<>>
        /\ decoded.kind = "Ok" => (Len(decoded.bytes) = U64_BYTES /\ encode(decoded.bytes) = input)

\* the encoding of 0 with one more digit, which is 62 * 2^64, was rejected
WitC7_TooWideRejected ==
    /\ input = Append(encode(Zero64), "0")
    /\ decoded = InvalidEncoding

(***************************************************************************)
(* App::clear_from_play (client/misc.rs:9-18).  The game state holds the   *)
(* keys of its maps; an Option is the set of its values.                   *)
(***************************************************************************)
Entities == 1..MaxEntities

GameState ==
    [players |-> players, my_player_id |-> my_player_id, kbots |-> kbots,
     selected |-> selected, kinematic_projectiles |-> kinematic_projectiles,
     kbot_gpu |-> kbot_gpu]

\* kbot_gpu.update_instance(instances, device): the buffer holds the instances given
update_instance(instances) == instances

clear_from_play_keeps_selection(g) ==
    [g EXCEPT !.players = {}, !.my_player_id = {}, !.kbots = {},
              !.kinematic_projectiles = {}, !.kbot_gpu = update_instance({})]

\* App::clear_from_play (client/misc.rs:10-17)
clear_from_play(g) ==
    [g EXCEPT !.players = {}, !.my_player_id = {}, !.kbots = {}, !.selected = {},
              !.kinematic_projectiles = {}, !.kbot_gpu = update_instance({})]

\* how many entries the game state holds
Held(g) ==
    Cardinality(g.players) + Cardinality(g.my_player_id) + Cardinality(g.kbots)
    + Cardinality(g.selected) + Cardinality(g.kinematic_projectiles) + Cardinality(g.kbot_gpu)

AppOthers == <<platform, idVars, fmtVars, nameVars, popVars, randVars, decVars>>

InitApp ==
    /\ players = {} /\ my_player_id = {} /\ kbots = {} /\ selected = {}
    /\ kinematic_projectiles = {} /\ kbot_gpu = {} /\ last = [op |-> "new", dropped |-> 0]
    /\ platform = "le"
    /\ IdleId /\ IdleFmt /\ IdleName /\ IdlePop /\ IdleRand /\ IdleDec

\* game_state.players.insert(id, ..)
AddPlayer(id) ==
    /\ players' = players \cup {id}
    /\ last' = [op |-> "play", dropped |-> 0]
    /\ UNCHANGED <<my_player_id, kbots, selected, kinematic_projectiles, kbot_gpu, AppOthers>>

\* game_state.my_player_id = Some(id)
SetMyPlayer(id) ==
    /\ id \in players
    /\ my_player_id' = {id}
    /\ last' = [op |-> "play", dropped |-> 0]
    /\ UNCHANGED <<players, kbots, selected, kinematic_projectiles, kbot_gpu, AppOthers>>

\* game_state.kbots.insert(id, ..)
AddKBot(id) ==
    /\ kbots' = kbots \cup {id}
    /\ last' = [op |-> "play", dropped |-> 0]
    /\ UNCHANGED <<players, my_player_id, selected, kinematic_projectiles, kbot_gpu, AppOthers>>

\* game_state.selected.insert(id)
Select(id) ==
    /\ id \in kbots
    /\ selected' = selected \cup {id}
    /\ last' = [op |-> "play", dropped |-> 0]
    /\ UNCHANGED <<players, my_player_id, kbots, kinematic_projectiles, kbot_gpu, AppOthers>>

\* game_state.kinematic_projectiles.insert(id, ..)
AddProjectile(id) ==
    /\ kinematic_projectiles' = kinematic_projectiles \cup {id}
    /\ last' = [op |-> "play", dropped |-> 0]
    /\ UNCHANGED <<players, my_player_id, kbots, selected, kbot_gpu, AppOthers>>

\* kbot_gpu.update_instance(<the kbots' instances>, device)
UploadKBots ==
    /\ kbot_gpu' = update_instance(kbots)
    /\ last' = [op |-> "play", dropped |-> 0]
    /\ UNCHANGED <<players, my_player_id, kbots, selected, kinematic_projectiles, AppOthers>>

\* app.clear_from_play()
ClearFromPlay ==
    /\ LET g == clear_from_play(GameState)
       IN  /\ players' = g.players
           /\ my_player_id' = g.my_player_id
           /\ kbots' = g.kbots
           /\ selected' = g.selected
           /\ kinematic_projectiles' = g.kinematic_projectiles
           /\ kbot_gpu' = g.kbot_gpu
    /\ last' = [op |-> "clear", dropped |-> Held(GameState)]
    /\ UNCHANGED AppOthers

NextApp ==
    \/ \E id \in Entities : AddPlayer(id)
    \/ \E id \in Entities : SetMyPlayer(id)
    \/ \E id \in Entities : AddKBot(id)
    \/ \E id \in Entities : Select(id)
    \/ \E id \in Entities : AddProjectile(id)
    \/ UploadKBots
    \/ ClearFromPlay

SpecApp == InitApp /\ [][NextApp]_vars

\* C10: right after clear_from_play the players, the kbots, the selection and the
\* projectiles are empty, my_player_id is None and the kbot instance buffer holds no
\* instance, so neither the selection nor my_player_id names a missing entity; a
\* second call changes nothing.
ThmC10_ClearEmptiesThePlay ==
    last.op = "clear" =>
        /\ players = {} /\ kbots = {} /\ selected = {} /\ kinematic_projectiles = {}
        /\ my_player_id = {}
        /\ kbot_gpu = {}
        /\ selected \subseteq kbots /\ my_player_id \subseteq players
        /\ clear_from_play(GameState) = GameState

\* the call came when every collection was full and my_player_id was set
WitC10_ClearedAFullState ==
    /\ last.op = "clear"
    /\ last.dropped = 5 * MaxEntities + 1
    /\ players = {} /\ selected = {}

====
